---- MODULE Spec2Model ----
(***************************************************************************)
(* A model of PartnerScraper (src/main.py): the text helpers clean_text    *)
(* and validate_email, the address split, the row extractor                *)
(* parse_partner_row and the document loop parse_all_partners.             *)
(*                                                                         *)
(* A Python str is modelled as a sequence of one-character strings, so     *)
(* that the regular expressions and the str methods of the source are      *)
(* computed character by character.                                        *)
(***************************************************************************)
EXTENDS Integers, Sequences, FiniteSets, TLC

VARIABLES pc, arg, ret, prev, log, partner_rows, idx, results

vars == <<pc, arg, ret, prev, log, partner_rows, idx, results>>

(***************************************************************************)
(* Characters.                                                             *)
(***************************************************************************)
Upper == <<"A","B","C","D","E","F","G","H","I","J","K","L","M",
           "N","O","P","Q","R","S","T","U","V","W","X","Y","Z">>

Lower == <<"a","b","c","d","e","f","g","h","i","j","k","l","m",
           "n","o","p","q","r","s","t","u","v","w","x","y","z">>

Digits == <<"0","1","2","3","4","5","6","7","8","9">>

\* The punctuation of ASCII below the digits, from code point 32, and the
\* punctuation between the digits and the upper-case letters, from 58.
PunctLow == <<" ","!","\"","#","$","%","&","'","(",")","*","+",",","-",".","/">>
PunctMid == <<":",";","<","=",">","?","@">>

Range(s) == {s[i] : i \in DOMAIN s}

IndexOf(s, c) == CHOOSE i \in DOMAIN s : s[i] = c

\* ord(c): the order in which Python compares the characters of two str.
CodePoint(c) ==
    IF c = "\t" THEN 9
    ELSE IF c = "\n" THEN 10
    ELSE IF c = "\r" THEN 13
    ELSE IF c \in Range(PunctLow) THEN 31 + IndexOf(PunctLow, c)
    ELSE IF c \in Range(Digits) THEN 47 + IndexOf(Digits, c)
    ELSE IF c \in Range(PunctMid) THEN 57 + IndexOf(PunctMid, c)
    ELSE IF c \in Range(Upper) THEN 64 + IndexOf(Upper, c)
    ELSE IF c = "_" THEN 95
    ELSE 96 + IndexOf(Lower, c)

IsUpper(c) == c \in Range(Upper)
IsLower(c) == c \in Range(Lower)
IsAlpha(c) == IsUpper(c) \/ IsLower(c)
IsDigit(c) == c \in Range(Digits)

\* \s of the re module and the characters str.strip() removes.
IsSpace(c) == c \in {" ", "\t", "\n", "\r"}

\* \w of the re module.
IsWord(c) == IsAlpha(c) \/ IsDigit(c) \/ c = "_"

Min(S) == CHOOSE m \in S : \A n \in S : m <= n
Max(S) == CHOOSE m \in S : \A n \in S : m >= n

(***************************************************************************)
(* str methods.                                                            *)
(***************************************************************************)
\* str.strip()
Strip(s) ==
    LET keep == {i \in DOMAIN s : ~IsSpace(s[i])}
    IN  IF keep = {} THEN <<>> ELSE SubSeq(s, Min(keep), Max(keep))

\* str.lower()
LowerChar(c) == IF IsUpper(c) THEN Lower[IndexOf(Upper, c)] ELSE c
ToLower(s) == [i \in DOMAIN s |-> LowerChar(s[i])]

\* str.startswith(p)
StartsWith(s, p) == Len(s) >= Len(p) /\ SubSeq(s, 1, Len(p)) = p

\* str.join: the elements of strs with sep between neighbours.
RECURSIVE Join(_, _)
Join(sep, strs) ==
    IF strs = <<>> THEN <<>>
    ELSE IF Len(strs) = 1 THEN strs[1]
    ELSE strs[1] \o sep \o Join(sep, Tail(strs))

\* str.split(sep) for a one-character sep: the pieces between the separators.
RECURSIVE Split(_, _)
Split(s, sep) ==
    LET at == {i \in DOMAIN s : s[i] = sep}
    IN  IF at = {} THEN <<s>>
        ELSE <<SubSeq(s, 1, Min(at) - 1)>> \o Split(SubSeq(s, Min(at) + 1, Len(s)), sep)

(***************************************************************************)
(* clean_text                                                              *)
(***************************************************************************)
\* re.sub of \s+ by one space: every maximal run of whitespace becomes one space.
RECURSIVE CollapseSpace(_)
CollapseSpace(s) ==
    IF s = <<>> THEN <<>>
    ELSE IF IsSpace(s[1])
         THEN LET rest == {i \in DOMAIN s : ~IsSpace(s[i])}
              IN  <<" ">> \o (IF rest = {} THEN <<>>
                              ELSE CollapseSpace(SubSeq(s, Min(rest), Len(s))))
         ELSE <<s[1]>> \o CollapseSpace(Tail(s))

\* The characters the class [^\w\s.,;?!@\-_+()/#] does not match.
Kept(c) ==
    \/ IsWord(c)
    \/ IsSpace(c)
    \/ c \in {".", ",", ";", "?", "!", "@", "-", "_", "+", "(", ")", "/", "#"}

\* re.sub of that class by the empty string.
RemoveSpecial(s) == SelectSeq(s, Kept)

\* clean_text with its two substitutions in the other order.
clean_text_DeleteFirst(text) ==
    IF text = <<>> THEN <<>>
    ELSE CollapseSpace(Strip(RemoveSpecial(text)))

clean_text(text) ==
    IF text = <<>> THEN <<>>
    ELSE RemoveSpecial(CollapseSpace(Strip(text)))

(***************************************************************************)
(* validate_email                                                          *)
(***************************************************************************)
InLocalClass(c)  == IsAlpha(c) \/ IsDigit(c) \/ c \in {".", "_", "%", "+", "-"}
InDomainClass(c) == IsAlpha(c) \/ IsDigit(c) \/ c \in {".", "-"}

\* The pattern with {1,} for {2,}: a one-letter last label is accepted.
FullEmailMatch_OneLetterTld(s) ==
    \E i \in 1..Len(s) : \E j \in 1..Len(s) :
        /\ i >= 2
        /\ s[i] = "@"
        /\ \A k \in 1..(i - 1) : InLocalClass(s[k])
        /\ j >= i + 2
        /\ s[j] = "."
        /\ \A k \in (i + 1)..(j - 1) : InDomainClass(s[k])
        /\ Len(s) >= j + 1
        /\ \A k \in (j + 1)..Len(s) : IsAlpha(s[k])

\* The pattern [a-zA-Z0-9._%+-]+@[a-zA-Z0-9.-]+\.[a-zA-Z]{2,} matches all of s.
FullEmailMatch(s) ==
    \E i \in 1..Len(s) : \E j \in 1..Len(s) :
        /\ i >= 2
        /\ s[i] = "@"
        /\ \A k \in 1..(i - 1) : InLocalClass(s[k])
        /\ j >= i + 2
        /\ s[j] = "."
        /\ \A k \in (i + 1)..(j - 1) : InDomainClass(s[k])
        /\ Len(s) >= j + 2
        /\ \A k \in (j + 1)..Len(s) : IsAlpha(s[k])

\* re.match of ^pattern$: $ matches at the end and before a final newline.
EmailMatch(s) ==
    \/ FullEmailMatch(s)
    \/ /\ s # <<>>
       /\ s[Len(s)] = "\n"
       /\ FullEmailMatch(SubSeq(s, 1, Len(s) - 1))

Diag(level, msg) == [level |-> level, msg |-> msg]

\* The value returned and the diagnostics logged.
validate_email(email) ==
    IF email = <<>> THEN [value |-> <<>>, log |-> <<>>]
    ELSE LET e == Strip(ToLower(email))
         IN  IF EmailMatch(e) THEN [value |-> e, log |-> <<>>]
             ELSE [value |-> <<>>,
                   log |-> <<Diag("WARNING", "Invalid email format found")>>]

(***************************************************************************)
(* The text helpers as a state machine: a caller picks a text and calls    *)
(* clean_text on it, possibly once more on the result, or validate_email.  *)
(***************************************************************************)
MaxLen == 4

Alphabet == {" ", "\n", "a", "B", "@", ".", "$", "%"}

StrUpTo(n) == UNION {[1..k -> Alphabet] : k \in 0..n}

\* Every text one insertion, deletion or replacement away from s.
Edits(s) ==
    {s}
    \cup {SubSeq(s, 1, i - 1) \o SubSeq(s, i + 1, Len(s)) : i \in DOMAIN s}
    \cup {[s EXCEPT ![i] = c] : i \in DOMAIN s, c \in Alphabet}
    \cup {SubSeq(s, 1, i) \o <<c>> \o SubSeq(s, i + 1, Len(s)) :
              i \in 0..Len(s), c \in Alphabet}

CleanExample ==
    <<"L","i","n","e","1","\n","\n"," "," ","L","i","n","e","2","\t","!","@","#","$","%">>

JaneDoe == <<"J","a","n","e",".","D","o","e","@","E","x","a","m","p","l","e",".","C","O","M">>
NotAnEmail == <<"n","o","t","-","a","n","-","e","m","a","i","l">>

EmailSeeds ==
    { JaneDoe, NotAnEmail,
      <<"a","@","b",".","c","o">>,
      <<"a","%","b","@","x",".","c","o">>,
      <<" ","a","_","1","@","b","-","c",".","d",".","e","u","\n">> }

TextInputs ==
    StrUpTo(MaxLen) \cup {CleanExample} \cup UNION {Edits(s) : s \in EmailSeeds}

InitText ==
    /\ pc = "call"
    /\ arg \in TextInputs
    /\ ret = <<>>
    /\ prev = <<>>
    /\ log = <<>>
    /\ partner_rows = <<>>
    /\ idx = 0
    /\ results = <<>>

CleanText ==
    /\ pc = "call"
    /\ ret' = clean_text(arg)
    /\ pc' = "clean_text"
    /\ UNCHANGED <<arg, prev, log, partner_rows, idx, results>>

\* The caller cleans a text that clean_text returned.
CleanAgain ==
    /\ pc = "clean_text"
    /\ prev' = ret
    /\ ret' = clean_text(ret)
    /\ pc' = "clean_text_twice"
    /\ UNCHANGED <<arg, log, partner_rows, idx, results>>

ValidateEmail ==
    /\ pc = "call"
    /\ ret' = validate_email(arg).value
    /\ log' = log \o validate_email(arg).log
    /\ pc' = "validate_email"
    /\ UNCHANGED <<arg, prev, partner_rows, idx, results>>

NextText == CleanText \/ CleanAgain \/ ValidateEmail

SpecText == InitText /\ [][NextText]_vars

(***************************************************************************)
(* extract_address_components                                              *)
(*                                                                         *)
(* A tag of the parsed tree is a record; the text nodes below a tag are a  *)
(* sequence of texts in document order.  The argument is None, a tag, or   *)
(* an object that is no tag (the first method call on it raises).          *)
(***************************************************************************)
\* Tag.stripped_strings: the text nodes, stripped, the empty ones left out.
stripped_strings(strings) ==
    LET stripped == [i \in DOMAIN strings |-> Strip(strings[i])]
    IN  SelectSeq(stripped, LAMBDA t : t # <<>>)

NoAddress == <<<<>>, <<>>, <<>>, <<>>>>

\* The split of lines 85-90 with len(state_country) >= 2 for == 2.
StateCountry_AnyComma(part) ==
    LET state_country == Split(part, ",")
    IN  IF Len(state_country) >= 2
        THEN [state |-> Strip(state_country[1]), country |-> Strip(state_country[2])]
        ELSE [state |-> part, country |-> <<>>]

\* Lines 85-90: the third part, split at its comma when it has exactly one.
StateCountry(part) ==
    LET state_country == Split(part, ",")
    IN  IF Len(state_country) = 2
        THEN [state |-> Strip(state_country[1]), country |-> Strip(state_country[2])]
        ELSE [state |-> part, country |-> <<>>]

\* The value returned and the diagnostics logged.
extract_address_components(address_td) ==
    IF address_td.kind = "None" THEN [value |-> NoAddress, log |-> <<>>]
    ELSE IF address_td.kind # "Tag"
    THEN [value |-> NoAddress,
          log |-> <<Diag("ERROR", "Error extracting address components")>>]
    ELSE IF ~address_td.has_address_span THEN [value |-> NoAddress, log |-> <<>>]
    ELSE LET address_parts ==
                 SelectSeq([i \in DOMAIN stripped_strings(address_td.strings) |->
                                Strip(stripped_strings(address_td.strings)[i])],
                           LAMBDA t : t # <<>>)
             n == Len(address_parts)
             street == IF n >= 1 THEN address_parts[1] ELSE <<>>
             city == IF n >= 2 THEN address_parts[2] ELSE <<>>
             sc == IF n >= 3 THEN StateCountry(address_parts[3])
                   ELSE [state |-> <<>>, country |-> <<>>]
             country == IF n >= 4 /\ sc.country = <<>> THEN address_parts[4]
                        ELSE sc.country
         IN  [value |-> <<clean_text(street), clean_text(city),
                          clean_text(sc.state), clean_text(country)>>,
              log |-> <<>>]

MaxParts == 4

MainSt == <<"1","2","3"," ","M","a","i","n"," ","S","t">>
Springfield == <<"S","p","r","i","n","g","f","i","e","l","d">>
IL_USA == <<"I","L",","," ","U","S","A">>
Illinois == <<"I","l","l","i","n","o","i","s">>

\* The text nodes an Address sub-element is built from.
AddressTexts ==
    { MainSt, Springfield, IL_USA, Illinois,
      <<" ","\n">>,
      <<" ","A",","," ","B",",","C","\n">>,
      <<"I","L",","," ">>,
      <<"I","L",",","$">> }

AddressArgs ==
    {[kind |-> "None", has_address_span |-> FALSE, strings |-> <<>>],
     [kind |-> "NotATag", has_address_span |-> FALSE, strings |-> <<>>],
     [kind |-> "Tag", has_address_span |-> FALSE, strings |-> <<>>]}
    \cup {[kind |-> "Tag", has_address_span |-> TRUE, strings |-> ss] :
              ss \in UNION {[1..k -> AddressTexts] : k \in 0..MaxParts}}

InitAddr ==
    /\ pc = "call"
    /\ arg \in AddressArgs
    /\ ret = <<>>
    /\ prev = <<>>
    /\ log = <<>>
    /\ partner_rows = <<>>
    /\ idx = 0
    /\ results = <<>>

ExtractAddressComponents ==
    /\ pc = "call"
    /\ ret' = extract_address_components(arg).value
    /\ log' = log \o extract_address_components(arg).log
    /\ pc' = "extract_address_components"
    /\ UNCHANGED <<arg, prev, partner_rows, idx, results>>

NextAddr == ExtractAddressComponents

SpecAddr == InitAddr /\ [][NextAddr]_vars

(***************************************************************************)
(* parse_partner_row                                                       *)
(*                                                                         *)
(* The argument is the markup of one row, given here as the tree that      *)
(* BeautifulSoup builds from it: for each element that the extractor looks *)
(* up, whether the row has it (None or Some) and what it holds.  An        *)
(* argument of kind "raises" is one on which BeautifulSoup raises (it is   *)
(* no markup at all, for instance None).                                   *)
(***************************************************************************)
None == <<>>
Some(x) == <<x>>

\* Tag.get_text(): the text nodes below the tag, concatenated.
get_text(strings) == Join(<<>>, strings)

\* Tag.get_text(strip=True): the stripped, non-empty text nodes, concatenated.
get_text_strip(strings) == Join(<<>>, stripped_strings(strings))

\* The least index from i on that holds no whitespace (no digit), or Len(s) + 1.
SkipSpaces(s, i) == Min({j \in i..Len(s) : ~IsSpace(s[j])} \cup {Len(s) + 1})
SkipDigits(s, i) == Min({j \in i..Len(s) : ~IsDigit(s[j])} \cup {Len(s) + 1})

LiteralAt(s, i, lit) ==
    /\ i + Len(lit) - 1 <= Len(s)
    /\ SubSeq(s, i, i + Len(lit) - 1) = lit

SortScoreKey == <<"s","o","r","t","S","c","o","r","e">>
LocationsKey == <<"L","o","c","a","t","i","o","n","s",":">>

\* Where the group of sortScore\s*:\s*(\d+\.?\d*) starts for a match at i, or 0.
ScoreGroupAt(s, i) ==
    IF ~LiteralAt(s, i, SortScoreKey) THEN 0
    ELSE LET colon == SkipSpaces(s, i + Len(SortScoreKey))
         IN  IF colon > Len(s) \/ s[colon] # ":" THEN 0
             ELSE LET d == SkipSpaces(s, colon + 1)
                  IN  IF d > Len(s) \/ ~IsDigit(s[d]) THEN 0 ELSE d

\* The group \d+\.?\d* from d on: the digits, a dot if one follows, the digits
\* after it.
ScoreGroup(s, d) ==
    LET e == SkipDigits(s, d)
    IN  IF e <= Len(s) /\ s[e] = "."
        THEN SubSeq(s, d, SkipDigits(s, e + 1) - 1)
        ELSE SubSeq(s, d, e - 1)

\* re.search(r"sortScore\s*:\s*(\d+\.?\d*)", s): group 1 of the leftmost match.
SearchSortScore(s) ==
    LET at == {i \in DOMAIN s : ScoreGroupAt(s, i) # 0}
    IN  IF at = {} THEN None ELSE Some(ScoreGroup(s, ScoreGroupAt(s, Min(at))))

\* re.search(r"Locations:\s*(\d+)", s): group 1 of the leftmost match.
SearchLocations(s) ==
    LET GroupAt(i) ==
            IF ~LiteralAt(s, i, LocationsKey) THEN 0
            ELSE LET d == SkipSpaces(s, i + Len(LocationsKey))
                 IN  IF d > Len(s) \/ ~IsDigit(s[d]) THEN 0 ELSE d
        at == {i \in DOMAIN s : GroupAt(i) # 0}
    IN  IF at = {} THEN None
        ELSE LET d == GroupAt(Min(at))
             IN  Some(SubSeq(s, d, SkipDigits(s, d) - 1))

\* a < b in the order of Python str: by code point, a proper prefix first.
StrLess(a, b) ==
    \E k \in 1..(Len(b)) :
        /\ k <= Len(a) + 1
        /\ \A i \in 1..(k - 1) : a[i] = b[i]
        /\ k = Len(a) + 1 \/ CodePoint(a[k]) < CodePoint(b[k])

\* sorted(S) for a set S of str.
RECURSIVE sorted(_)
sorted(S) ==
    IF S = {} THEN <<>>
    ELSE LET least == CHOOSE a \in S : \A b \in S \ {a} : StrLess(a, b)
         IN  <<least>> \o sorted(S \ {least})

required_fields ==
    <<"Number", "Siemens Batch", "Name", "Partner Batch", "Locations",
      "Office address", "Contact Name", "Contact Email", "Contact Telephone",
      "Contact website", "Proced Specialization">>

CommaSpace == <<",", " ">>

\* Lines 109-112.
NumberField(soup) ==
    IF soup.number_tag # None THEN clean_text(get_text(soup.number_tag[1])) ELSE <<>>

\* Lines 114-124.  re.search on a str raises nothing, so the handler of lines
\* 123-124 and its warning are never reached.
SiemensBatchField(soup) ==
    IF soup.hidden_td = None THEN <<>>
    ELSE LET score_match == SearchSortScore(get_text_strip(soup.hidden_td[1]))
         IN  IF score_match # None THEN score_match[1] ELSE <<>>

\* Lines 126-129.
NameField(soup) ==
    IF soup.name_tag # None THEN clean_text(get_text(soup.name_tag[1])) ELSE <<>>

\* Lines 131-136.
PartnerBatchField(soup) ==
    IF soup.partner_type_span = None THEN <<>>
    ELSE LET batch_items == soup.partner_type_span[1]
         IN  Join(CommaSpace,
                  [i \in DOMAIN batch_items |-> clean_text(get_text(batch_items[i]))])

\* Lines 138-147.
LocationsField(soup) ==
    IF soup.partner_info_span = None THEN <<>>
    ELSE LET count_span == soup.partner_info_span[1]
         IN  IF count_span = None THEN <<>>
             ELSE LET locations_match == SearchLocations(get_text_strip(count_span[1]))
                  IN  IF locations_match # None THEN locations_match[1] ELSE <<>>

\* Lines 149-157: the text of the whole mailing-address element, its label
\* included, when it has a value sub-element.
OfficeAddressField(soup) ==
    IF soup.address_span = None THEN <<>>
    ELSE LET address_span == soup.address_span[1]
         IN  IF address_span.address_detail = None THEN <<>>
             ELSE clean_text(get_text(address_span.label
                                      \o address_span.address_detail[1]))

\* Lines 159-165.
ContactNameField(soup) ==
    IF soup.contact_name_span = None THEN <<>>
    ELSE LET contact_detail == soup.contact_name_span[1]
         IN  IF contact_detail = None THEN <<>>
             ELSE clean_text(get_text(contact_detail[1]))

\* The email field with the text of the link cleaned before it is validated.
ContactEmailField_Cleaned(soup) ==
    IF soup.email_span = None THEN [value |-> <<>>, log |-> <<>>]
    ELSE LET mailto == soup.email_span[1]
         IN  IF mailto = None THEN [value |-> <<>>, log |-> <<>>]
             ELSE validate_email(clean_text(get_text(mailto[1])))

\* Lines 167-173: the value and the diagnostics of validate_email.
ContactEmailField(soup) ==
    IF soup.email_span = None THEN [value |-> <<>>, log |-> <<>>]
    ELSE LET mailto == soup.email_span[1]
         IN  IF mailto = None THEN [value |-> <<>>, log |-> <<>>]
             ELSE validate_email(get_text(mailto[1]))

\* The telephone field read from the link of the email element.
ContactTelephoneField_FromEmailSpan(soup) ==
    IF soup.email_span = None THEN <<>>
    ELSE LET phone_link == soup.email_span[1]
         IN  IF phone_link = None THEN <<>>
             ELSE clean_text(get_text(phone_link[1]))

\* Lines 175-181.
ContactTelephoneField(soup) ==
    IF soup.phone_span = None THEN <<>>
    ELSE LET phone_link == soup.phone_span[1]
         IN  IF phone_link = None THEN <<>>
             ELSE clean_text(get_text(phone_link[1]))

\* Lines 183-190: the link is the first a element that has an href.
ContactWebsiteField(soup) ==
    IF soup.website_span = None THEN <<>>
    ELSE LET web_link == soup.website_span[1]
         IN  IF web_link = None THEN <<>>
             ELSE LET href == web_link[1]
                  IN  IF \/ StartsWith(href, <<"h","t","t","p",":","/","/">>)
                         \/ StartsWith(href, <<"h","t","t","p","s",":","/","/">>)
                      THEN href ELSE <<>>

\* The specializations deduplicated but left in document order.
ProcedSpecializationField_Unsorted(soup) ==
    IF soup.spec_container = None THEN <<>>
    ELSE LET items == soup.spec_container[1]
             spec(i) == clean_text(get_text(items[i]))
             first == {i \in DOMAIN items :
                          spec(i) # <<>> /\ \A j \in 1..(i - 1) : spec(j) # spec(i)}
             F[i \in 0..Len(items)] ==
                 IF i = 0 THEN <<>>
                 ELSE IF i \in first THEN F[i - 1] \o <<spec(i)>> ELSE F[i - 1]
         IN  Join(CommaSpace, F[Len(items)])

\* Lines 192-200.
ProcedSpecializationField(soup) ==
    LET specializations ==
            IF soup.spec_container = None THEN {}
            ELSE LET items == soup.spec_container[1]
                 IN  {clean_text(get_text(items[i])) : i \in DOMAIN items} \ {<<>>}
    IN  Join(CommaSpace, sorted(specializations))

\* The record of the failure path built from the fields found so far.
EmptyRecord_Partial == [f \in {"Number", "Siemens Batch", "Name"} |-> <<>>]

\* Line 218.
EmptyRecord == [f \in Range(required_fields) |-> <<>>]

\* Lines 104-218: the record returned and the diagnostics logged.
parse_partner_row(html_snippet) ==
    IF html_snippet.kind = "raises"
    THEN [value |-> EmptyRecord,
          log |-> <<Diag("ERROR", "Error parsing partner row")>>]
    ELSE LET soup == html_snippet
         IN  [value |->
                  [f \in Range(required_fields) |->
                      CASE f = "Number" -> NumberField(soup)
                        [] f = "Siemens Batch" -> SiemensBatchField(soup)
                        [] f = "Name" -> NameField(soup)
                        [] f = "Partner Batch" -> PartnerBatchField(soup)
                        [] f = "Locations" -> LocationsField(soup)
                        [] f = "Office address" -> OfficeAddressField(soup)
                        [] f = "Contact Name" -> ContactNameField(soup)
                        [] f = "Contact Email" -> ContactEmailField(soup).value
                        [] f = "Contact Telephone" -> ContactTelephoneField(soup)
                        [] f = "Contact website" -> ContactWebsiteField(soup)
                        [] f = "Proced Specialization" -> ProcedSpecializationField(soup)],
              log |-> ContactEmailField(soup).log]

(***************************************************************************)
(* The row extractor as a state machine: a caller parses a row, and may    *)
(* then parse the same row again with one sub-element taken out, or with   *)
(* the list items of the specialization container in another order.        *)
(***************************************************************************)
MaxItems == 3

\* An element with one text node.
Text(t) == <<t>>

ScoreText == <<"s","o","r","t","S","c","o","r","e",":"," ","8","5",".","5">>
BadScoreText == <<"s","o","r","t","S","c","o","r","e",":"," ","n","/","a">>
ValidEmailText == <<" ","A","@","b",".","c","o","\n">>
DollarEmailText == <<"a","$","b","@","x",".","c","o">>
PercentEmailText == <<"a","%","b","@","x",".","c","o">>
HttpsHref == <<"h","t","t","p","s",":","/","/","x",".","c","o","m">>
FtpHref == <<"f","t","p",":","/","/","x",".","c","o","m">>
CT == <<"C","T">>
MRI == <<"M","R","I">>
ct == <<"c","t">>

NumberTags == {Text(<<"1",".">>)}
HiddenTds ==
    { Text(ScoreText), Text(BadScoreText) }
NameTags == {Text(<<" ","A","c","m","e","\n"," ","C","o","r","p"," ","&"," ","C","o","."," ">>)}
PartnerTypeSpans ==
    {<<Text(<<"G","o","l","d"," ","P","a","r","t","n","e","r">>), Text(<<"S","i","l","v","e","r">>)>>}
CountSpans == {<<<<"L","o","c","a","t","i","o","n","s",":">>, <<" ","1","2"," ">>>>}
AddressSpans ==
    {[label |-> Text(<<"A","d","d","r","e","s","s",":">>),
      address_detail |-> Some(Text(<<" ","S","t","r","e","e","t"," ","1","\n","P","r","a","g","u","e">>))]}
ContactDetails == {Text(<<"J","o","h","n"," "," ","D","o","e">>)}
MailtoLinks == {Text(ValidEmailText), Text(DollarEmailText)}
PhoneLinks == {Text(<<"+","4","2","0"," ","(","2",")"," ","1","2","3">>)}
WebLinks == {HttpsHref}
SpecContainers == {<<Text(MRI), Text(CT), Text(CT)>>}

Opt(S) == {None} \cup {Some(x) : x \in S}

\* Every combination of the sub-elements being there or not.
ProductRows ==
    [kind : {"markup"},
     number_tag : Opt(NumberTags),
     hidden_td : Opt(HiddenTds),
     name_tag : Opt(NameTags),
     partner_type_span : Opt(PartnerTypeSpans),
     partner_info_span : Opt({Some(c) : c \in CountSpans}),
     address_span : Opt(AddressSpans),
     contact_name_span : Opt({Some(c) : c \in ContactDetails}),
     email_span : Opt({Some(m) : m \in MailtoLinks}),
     phone_span : Opt({Some(l) : l \in PhoneLinks}),
     website_span : Opt({Some(h) : h \in WebLinks}),
     spec_container : Opt(SpecContainers)]

FullRow ==
    [kind |-> "markup",
     number_tag |-> Some(Text(<<"1",".">>)),
     hidden_td |-> Some(Text(ScoreText)),
     name_tag |-> Some(Text(<<"A","c","m","e">>)),
     partner_type_span |-> Some(<<Text(<<"G","o","l","d">>)>>),
     partner_info_span |-> Some(Some(Text(<<"L","o","c","a","t","i","o","n","s",":","3">>))),
     address_span |-> Some([label |-> <<>>, address_detail |-> Some(Text(<<"P","r","a","g","u","e">>))]),
     contact_name_span |-> Some(Some(Text(<<"J","o","h","n">>))),
     email_span |-> Some(Some(Text(<<"a","@","b",".","c","o">>))),
     phone_span |-> Some(Some(Text(<<"1","2","3">>))),
     website_span |-> Some(Some(HttpsHref)),
     spec_container |-> Some(<<Text(CT)>>)]

EmptyRow ==
    [kind |-> "markup", number_tag |-> None, hidden_td |-> None, name_tag |-> None,
     partner_type_span |-> None, partner_info_span |-> None, address_span |-> None,
     contact_name_span |-> None, email_span |-> None, phone_span |-> None,
     website_span |-> None, spec_container |-> None]

\* An argument that BeautifulSoup cannot take.
NoMarkup == [EmptyRow EXCEPT !.kind = "raises"]

SpecTexts == {CT, MRI, ct, <<" ","C","T","\n">>, <<"$">>, <<"C",","," ","c">>}

\* The full row with one sub-element varied over more contents.
VariedRows ==
    {[FullRow EXCEPT !.spec_container = Some([i \in DOMAIN items |-> Text(items[i])])] :
         items \in UNION {[1..k -> SpecTexts] : k \in 0..MaxItems}}
    \cup {[FullRow EXCEPT !.email_span = Some(Some(Text(t)))] :
              t \in {PercentEmailText, DollarEmailText, JaneDoe, NotAnEmail, <<>>}}
    \cup {[FullRow EXCEPT !.website_span = Some(Some(h))] :
              h \in {FtpHref, <<>>, <<"h","t","t","p",":","/","/">>}}
    \cup {[FullRow EXCEPT !.hidden_td = Some(h)] :
              h \in { <<<<" ","{","s","o","r","t","S","c","o","r","e">>, <<" ",":","7",","," ","i","d",":","3","}">>>>,
                      Text(<<"s","o","r","t","S","c","o","r","e">>),
                      Text(<<"s","c","o","r","e",":","5">>),
                      <<>> }}

Rows == ProductRows \cup VariedRows \cup {NoMarkup}

\* The sub-elements a field is read through, outermost first.
Chain(f) ==
    CASE f = "Number" -> <<"number_tag">>
      [] f = "Siemens Batch" -> <<"hidden_td">>
      [] f = "Name" -> <<"name_tag">>
      [] f = "Partner Batch" -> <<"partner_type_span">>
      [] f = "Locations" -> <<"partner_info_span", "count_span">>
      [] f = "Office address" -> <<"address_span", "address_detail">>
      [] f = "Contact Name" -> <<"contact_name_span", "contact_detail">>
      [] f = "Contact Email" -> <<"email_span", "mailto">>
      [] f = "Contact Telephone" -> <<"phone_span", "phone_link">>
      [] f = "Contact website" -> <<"website_span", "web_link">>
      [] f = "Proced Specialization" -> <<"spec_container">>

\* The row has the sub-element at this depth of the chain of f.
Present(row, f, depth) ==
    /\ row.kind = "markup"
    /\ depth \in DOMAIN Chain(f)
    /\ row[Chain(f)[1]] # None
    /\ depth = 2 =>
           IF f = "Office address" THEN row.address_span[1].address_detail # None
           ELSE row[Chain(f)[1]][1] # None

\* The row without the sub-element at this depth of the chain of f.
Without(row, f, depth) ==
    IF depth = 1 THEN [row EXCEPT ![Chain(f)[1]] = None]
    ELSE IF f = "Office address"
    THEN [row EXCEPT !.address_span = Some([row.address_span[1] EXCEPT !.address_detail = None])]
    ELSE [row EXCEPT ![Chain(f)[1]] = Some(None)]

Orderings(n) == {p \in [1..n -> 1..n] : \A i, j \in 1..n : p[i] = p[j] => i = j}

InitRow ==
    /\ pc = "call"
    /\ arg \in Rows
    /\ ret = <<>>
    /\ prev = <<>>
    /\ log = <<>>
    /\ partner_rows = <<>>
    /\ idx = 0
    /\ results = <<>>

ParsePartnerRow ==
    /\ pc = "call"
    /\ ret' = parse_partner_row(arg).value
    /\ log' = log \o parse_partner_row(arg).log
    /\ pc' = "parse_partner_row"
    /\ UNCHANGED <<arg, prev, partner_rows, idx, results>>

\* The row is parsed again without one sub-element that it had.
ParseWithout ==
    /\ pc = "parse_partner_row"
    /\ \E f \in Range(required_fields), depth \in 1..2 :
           /\ Present(arg, f, depth)
           /\ arg' = Without(arg, f, depth)
           /\ prev' = [ret |-> ret, field |-> f]
    /\ ret' = parse_partner_row(arg').value
    /\ log' = log \o parse_partner_row(arg').log
    /\ pc' = "parsed_without"
    /\ UNCHANGED <<partner_rows, idx, results>>

\* The row is parsed again with its specialization items in another order.
ParseReordered ==
    /\ pc = "parse_partner_row"
    /\ arg.kind = "markup"
    /\ arg.spec_container # None
    /\ LET items == arg.spec_container[1]
       IN  /\ Len(items) >= 2
           /\ \E p \in Orderings(Len(items)) :
                  arg' = [arg EXCEPT !.spec_container =
                                         Some([i \in DOMAIN items |-> items[p[i]]])]
    /\ prev' = [ret |-> ret, field |-> "Proced Specialization"]
    /\ ret' = parse_partner_row(arg').value
    /\ log' = log \o parse_partner_row(arg').log
    /\ pc' = "parsed_reordered"
    /\ UNCHANGED <<partner_rows, idx, results>>

NextRow == ParsePartnerRow \/ ParseWithout \/ ParseReordered

SpecRow == InitRow /\ [][NextRow]_vars

(***************************************************************************)
(* parse_all_partners                                                      *)
(*                                                                         *)
(* The document is given as the tree BeautifulSoup builds from it: its     *)
(* row-marker cells in document order, each with its ancestors from the    *)
(* nearest outwards (a tr ancestor carries the content of that row).  A    *)
(* document of kind "raises" is one on which BeautifulSoup raises.         *)
(*                                                                         *)
(* str() of a row can raise: the bs4 releases that convert a tree to text  *)
(* recursively raise RecursionError on a row nested deeper than the        *)
(* recursion limit of the interpreter.  Such a row has str_raises set.     *)
(***************************************************************************)
MaxRows == 3

\* Tag.find_parent("tr"): the nearest ancestor that is a tr, or None.
find_parent_tr(row_num_td) ==
    LET trs == {i \in DOMAIN row_num_td.ancestors : row_num_td.ancestors[i].name = "tr"}
    IN  IF trs = {} THEN None ELSE Some(row_num_td.ancestors[Min(trs)])

\* What BeautifulSoup builds from str(parent_tr): the row again, and for
\* str(None), the text "None", a tree without any element.
Reparsed(parent_tr) ==
    IF parent_tr = None THEN EmptyRow ELSE parent_tr[1].row

\* One pass of the loop body, lines 229-246, on the marker at idx: the records
\* and the diagnostics after it.
LoopBody(row_num_td, n, res, lg) ==
    LET parent_tr == find_parent_tr(row_num_td)
    IN  IF parent_tr # None /\ parent_tr[1].str_raises
        THEN [results |-> res,
              log |-> lg \o <<Diag("ERROR", "Error processing row")>>]
        ELSE LET row_data == parse_partner_row(Reparsed(parent_tr))
             IN  [results |-> Append(res, row_data.value),
                  log |-> lg \o row_data.log \o <<Diag("INFO", "Processed partner")>>]

Ancestor(name, row, raises) == [name |-> name, row |-> row, str_raises |-> raises]

InvalidEmailRow == [FullRow EXCEPT !.email_span = Some(Some(Text(NotAnEmail)))]
NamedRow == [EmptyRow EXCEPT !.name_tag = Some(Text(<<"A","c","m","e">>))]

\* The row-marker cells a document is built from.
Markers ==
    { [ancestors |-> <<Ancestor("tr", FullRow, FALSE)>>],
      [ancestors |-> <<Ancestor("tr", InvalidEmailRow, FALSE),
                       Ancestor("tbody", EmptyRow, FALSE)>>],
      [ancestors |-> <<Ancestor("div", EmptyRow, FALSE),
                       Ancestor("tr", NamedRow, FALSE),
                       Ancestor("table", EmptyRow, FALSE),
                       Ancestor("tr", FullRow, FALSE)>>],
      [ancestors |-> <<Ancestor("div", EmptyRow, FALSE)>>],
      [ancestors |-> <<Ancestor("tr", NoMarkup, FALSE)>>],
      [ancestors |-> <<Ancestor("tr", NamedRow, TRUE)>>] }

Documents ==
    {[kind |-> "raises", markers |-> <<>>]}
    \cup {[kind |-> "markup", markers |-> m] :
              m \in UNION {[1..k -> Markers] : k \in 0..MaxRows}}

Init ==
    /\ pc = "call"
    /\ arg \in Documents
    /\ ret = <<>>
    /\ prev = <<>>
    /\ log = <<>>
    /\ partner_rows = <<>>
    /\ idx = 0
    /\ results = <<>>

\* Lines 223-226: the document is parsed and its markers are found.
Segment ==
    /\ pc = "call"
    /\ arg.kind = "markup"
    /\ partner_rows' = arg.markers
    /\ results' = <<>>
    /\ idx' = 1
    /\ pc' = "loop"
    /\ UNCHANGED <<arg, ret, prev, log>>

\* Lines 249-251: BeautifulSoup raises on the document.
SegmentFails ==
    /\ pc = "call"
    /\ arg.kind = "raises"
    /\ log' = log \o <<Diag("ERROR", "Error parsing HTML content")>>
    /\ ret' = <<>>
    /\ pc' = "done"
    /\ UNCHANGED <<arg, prev, partner_rows, idx, results>>

\* Lines 228-246: one pass of the loop.
ProcessRow ==
    /\ pc = "loop"
    /\ idx <= Len(partner_rows)
    /\ results' = LoopBody(partner_rows[idx], Len(partner_rows), results, log).results
    /\ log' = LoopBody(partner_rows[idx], Len(partner_rows), results, log).log
    /\ idx' = idx + 1
    /\ UNCHANGED <<pc, arg, ret, prev, partner_rows>>

\* Line 248.
Return ==
    /\ pc = "loop"
    /\ idx > Len(partner_rows)
    /\ ret' = results
    /\ pc' = "done"
    /\ UNCHANGED <<arg, prev, log, partner_rows, idx, results>>

Next == Segment \/ SegmentFails \/ ProcessRow \/ Return

Spec == Init /\ [][Next]_vars

(***************************************************************************)
(* Properties of the text helpers, checked under SpecText.                 *)
(***************************************************************************)
\* The maximal runs of non-whitespace characters of t, in order.
RECURSIVE Words(_)
Words(t) ==
    LET solid == {i \in DOMAIN t : ~IsSpace(t[i])}
    IN  IF solid = {} THEN <<>>
        ELSE LET a == Min(solid)
                 b == Min({i \in a..Len(t) : IsSpace(t[i])} \cup {Len(t) + 1})
             IN  <<SubSeq(t, a, b - 1)>> \o Words(SubSeq(t, b, Len(t)))

\* t with every whitespace run collapsed to one space and the ends trimmed.
NormalSpace(t) == Join(<<" ">>, Words(t))

\* Alphanumeric, underscore, whitespace or one of . , ; ? ! @ - _ + ( ) / #
Allowed(c) ==
    \/ IsAlpha(c) \/ IsDigit(c) \/ c = "_" \/ IsSpace(c)
    \/ c \in {".", ",", ";", "?", "!", "@", "-", "_", "+", "(", ")", "/", "#"}

CollapsedThenDeleted(t) == SelectSeq(NormalSpace(t), Allowed)

\* C4 (as amended): clean_text(t) is t with every whitespace run collapsed to
\* one space and the ends trimmed, followed by the deletion of every character
\* that is not alphanumeric, underscore, whitespace or one of
\* . , ; ? ! @ - _ + ( ) / # ; for Line1<newline><newline><space><space>Line2<tab>!@#$%
\* the result is "Line1 Line2 !@#" (the # is in the allowed set and stays).
C4_CleanTextCollapsesThenDeletes ==
    pc = "clean_text" =>
        /\ ret = CollapsedThenDeleted(arg)
        /\ arg = CleanExample =>
               ret = <<"L","i","n","e","1"," ","L","i","n","e","2"," ","!","@","#">>

\* C4 as first stated: the same, with "Line1 Line2 !@" for the example.
C4_Original_ExampleDropsHash ==
    pc = "clean_text" =>
        /\ ret = CollapsedThenDeleted(arg)
        /\ arg = CleanExample =>
               ret = <<"L","i","n","e","1"," ","L","i","n","e","2"," ","!","@">>

\* clean_text has run on the example text, which has whitespace runs, a tab
\* and characters of both kinds.
C4_Witness ==
    /\ pc = "clean_text"
    /\ arg = CleanExample
    /\ Len(ret) < Len(arg)

\* The lower-cased, trimmed form of an input.
LowerTrimmed(t) == ToLower(Strip(t))

\* local-part@domain.tld: one @, a non-empty local part over [a-zA-Z0-9._%+-],
\* then a non-empty domain over [a-zA-Z0-9.-], the last dot, and two or more
\* letters.
EmailShape(e) ==
    LET ats  == {i \in DOMAIN e : e[i] = "@"}
        dots == {i \in DOMAIN e : e[i] = "."}
    IN  /\ Cardinality(ats) = 1
        /\ LET a == Min(ats)
           IN  /\ a > 1
               /\ \A k \in 1..(a - 1) :
                      IsAlpha(e[k]) \/ IsDigit(e[k]) \/ e[k] \in {".", "_", "%", "+", "-"}
               /\ {d \in dots : d > a} # {}
               /\ LET d == Max(dots)
                  IN  /\ d > a + 1
                      /\ \A k \in (a + 1)..(d - 1) :
                             IsAlpha(e[k]) \/ IsDigit(e[k]) \/ e[k] \in {".", "-"}
                      /\ Len(e) - d >= 2
                      /\ \A k \in (d + 1)..Len(e) : IsAlpha(e[k])

Warned == \E i \in DOMAIN log : log[i].level = "WARNING"

\* C5 (as amended): for every input, the result of validate_email is either the
\* lower-cased, trimmed input, which then has the shape local-part@domain.tld,
\* or it is ""; every non-empty input whose lower-cased, trimmed form does not
\* have that shape returns "" together with a warning diagnostic, and the empty
\* input returns "" with no diagnostic. "Jane.Doe@Example.COM" gives
\* "jane.doe@example.com" and "not-an-email" gives "" with a warning.
C5_ValidateEmailShape ==
    pc = "validate_email" =>
        /\ \/ ret = LowerTrimmed(arg) /\ EmailShape(ret)
           \/ ret = <<>>
        /\ (arg # <<>> /\ ~EmailShape(LowerTrimmed(arg))) => (ret = <<>> /\ Warned)
        /\ arg = <<>> => (ret = <<>> /\ log = <<>>)
        /\ arg = JaneDoe =>
               ret = <<"j","a","n","e",".","d","o","e","@","e","x","a","m","p","l","e",".","c","o","m">>
        /\ arg = NotAnEmail => (ret = <<>> /\ Warned)

\* C5 as first stated: every input whose lower-cased, trimmed form does not have
\* the shape returns "" together with a warning, the empty input included.
C5_Original_AlwaysWarns ==
    pc = "validate_email" =>
        /\ \/ ret = LowerTrimmed(arg) /\ EmailShape(ret)
           \/ ret = <<>>
        /\ ~EmailShape(LowerTrimmed(arg)) => (ret = <<>> /\ Warned)

\* validate_email has rejected a non-empty input that is one character away
\* from an accepted one.
C5_Witness ==
    /\ pc = "validate_email"
    /\ arg # <<>>
    /\ ret = <<>>
    /\ Warned
    /\ \E i \in DOMAIN arg :
           EmailShape(LowerTrimmed(SubSeq(arg, 1, i - 1) \o SubSeq(arg, i + 1, Len(arg))))

\* No leading or trailing whitespace and no two adjacent whitespace characters.
NormalForm(t) ==
    /\ t # <<>> => (~IsSpace(t[1]) /\ ~IsSpace(t[Len(t)]))
    /\ \A i \in 1..(Len(t) - 1) : ~(IsSpace(t[i]) /\ IsSpace(t[i + 1]))

\* C10: clean_text is idempotent and its output is in normal form:
\* clean_text(clean_text(t)) = clean_text(t), and clean_text(t) has no leading
\* or trailing whitespace and no two adjacent whitespace characters, also when
\* a deleted character stood between two spaces or at an end of the text.
C10_CleanTextIdempotentNormalForm ==
    /\ pc = "clean_text" => NormalForm(ret)
    /\ pc = "clean_text_twice" => ret = prev

(***************************************************************************)
(* Properties of the address split, checked under SpecAddr.                *)
(***************************************************************************)
\* The ordered non-empty text parts of the Address sub-element.
Parts(td) == SelectSeq(td.strings, LAMBDA t : Strip(t) # <<>>)

Commas(t) == Cardinality({i \in DOMAIN t : t[i] = ","})

BeforeComma(t) == SubSeq(t, 1, Min({i \in DOMAIN t : t[i] = ","}) - 1)
AfterComma(t) == SubSeq(t, Min({i \in DOMAIN t : t[i] = ","}) + 1, Len(t))

\* C8: on the ordered non-empty text parts of the Address sub-element,
\* street = clean(parts[0]) and city = clean(parts[1]) when present; parts[2]
\* with exactly one comma is split into region and country, otherwise all of it
\* is the region and the country stays empty; a fourth part becomes the country
\* only if the country is still unset; fewer parts leave the remaining
\* components ""; an exception yields four empty components.
C8_AddressSplit ==
    (pc = "extract_address_components" /\ arg.kind = "Tag" /\ arg.has_address_span) =>
        LET parts == Parts(arg)
            n == Len(parts)
            one == n >= 3 /\ Commas(parts[3]) = 1
            split_country == IF one THEN Strip(AfterComma(parts[3])) ELSE <<>>
        IN  /\ ret[1] = (IF n >= 1 THEN clean_text(parts[1]) ELSE <<>>)
            /\ ret[2] = (IF n >= 2 THEN clean_text(parts[2]) ELSE <<>>)
            /\ ret[3] = (IF n < 3 THEN <<>>
                         ELSE IF one THEN clean_text(BeforeComma(parts[3]))
                         ELSE clean_text(parts[3]))
            /\ ret[4] = (IF split_country # <<>> THEN clean_text(split_country)
                         ELSE IF n >= 4 THEN clean_text(parts[4])
                         ELSE <<>>)
            /\ (n >= 3 /\ ~one /\ n < 4) => ret[4] = <<>>
            /\ parts = <<MainSt, Springfield, IL_USA>> =>
                   ret = <<MainSt, Springfield, <<"I","L">>, <<"U","S","A">>>>
            /\ parts = <<MainSt, Springfield, Illinois>> =>
                   ret = <<MainSt, Springfield, Illinois, <<>>>>

\* C8, the failure half: an argument that is no tag makes the lookup raise, and
\* the four components are empty, as they are without an Address sub-element.
C8_AddressFailure ==
    (pc = "extract_address_components" /\ ~(arg.kind = "Tag" /\ arg.has_address_span)) =>
        /\ ret = NoAddress
        /\ arg.kind = "NotATag" <=> log # <<>>

\* C8: the address split as a whole, on the parts of the Address sub-element
\* and on the arguments that have none or make the lookup raise.
C8_AddressComponents == C8_AddressSplit /\ C8_AddressFailure

\* The split has run on four parts whose third has one comma and an empty
\* second half, so that the fourth part became the country.
C8_Witness ==
    /\ pc = "extract_address_components"
    /\ arg.kind = "Tag"
    /\ Len(Parts(arg)) = 4
    /\ Commas(Parts(arg)[3]) = 1
    /\ ret[3] = <<"I","L">>
    /\ ret[4] = Illinois

(***************************************************************************)
(* Properties of the row extractor, checked under SpecRow.                 *)
(***************************************************************************)
Parsed == pc \in {"parse_partner_row", "parsed_without", "parsed_reordered"}

ElevenFields ==
    {"Number", "Siemens Batch", "Name", "Partner Batch", "Locations",
     "Office address", "Contact Name", "Contact Email", "Contact Telephone",
     "Contact website", "Proced Specialization"}

Characters ==
    Range(Upper) \cup Range(Lower) \cup Range(Digits) \cup Range(PunctLow)
    \cup Range(PunctMid) \cup {"_", "\n", "\t", "{", "}"}

IsString(v) == DOMAIN v = 1..Len(v) /\ \A i \in DOMAIN v : v[i] \in Characters

AllAbsent(row) ==
    \A f \in ElevenFields : row[Chain(f)[1]] = None

LoggedAt(level) == \E i \in DOMAIN log : log[i].level = level

\* C1: parse_partner_row is total: for every row fragment, one on which
\* parsing fails included, it returns a record that has exactly the eleven
\* named fields, each holding a string; on a fragment-wide failure every field
\* is "" (and an error is logged), and a fragment with all sub-elements absent
\* yields eleven empty strings.
C1_RowExtractorTotal ==
    Parsed =>
        /\ DOMAIN ret = ElevenFields
        /\ Cardinality(DOMAIN ret) = 11
        /\ \A f \in DOMAIN ret : IsString(ret[f])
        /\ arg.kind = "raises" =>
               ((\A f \in ElevenFields : ret[f] = <<>>) /\ LoggedAt("ERROR"))
        /\ AllAbsent(arg) => \A f \in ElevenFields : ret[f] = <<>>

\* parse_partner_row has returned from an argument on which the parser raised.
C1_Witness ==
    /\ pc = "parse_partner_row"
    /\ arg.kind = "raises"
    /\ LoggedAt("ERROR")
    /\ DOMAIN ret = ElevenFields

\* C3: field independence: when the sub-element a field is read from is absent,
\* anywhere in its lookup chain, that field is "" and each of the other ten
\* fields has the value it has for the same fragment with the sub-element
\* present.
C3_FieldIndependence ==
    pc = "parsed_without" =>
        /\ ret[prev.field] = <<>>
        /\ \A g \in ElevenFields \ {prev.field} : ret[g] = prev.ret[g]

\* The inner sub-element of a two-step chain was taken out of a row in which
\* the field and at least nine others had a value.
C3_Witness ==
    /\ pc = "parsed_without"
    /\ prev.field = "Contact Email"
    /\ arg.email_span = Some(None)
    /\ prev.ret["Contact Email"] # <<>>
    /\ Cardinality({g \in ElevenFields : ret[g] # <<>>}) >= 9

HasEmailLink(row) ==
    row.kind = "markup" /\ row.email_span # None /\ row.email_span[1] # None

LinkText(row) == Join(<<>>, row.email_span[1][1])

\* C6 (as amended): the ContactEmail field is the text of the email link
\* validated as it stands, without being normalized by clean first: it is the
\* lower-cased, trimmed link text when that has the email shape and "" when it
\* has not, so that link text with a disallowed character in it is rejected and
\* a % in the local part is kept.
C6_EmailValidatedAsIs ==
    (pc = "parse_partner_row" /\ HasEmailLink(arg)) =>
        ret["Contact Email"] =
            (IF EmailShape(LowerTrimmed(LinkText(arg)))
             THEN LowerTrimmed(LinkText(arg)) ELSE <<>>)

\* C6 as first stated: ContactEmail = validate_email(clean_text(link text)).
C6_Original_CleanedThenValidated ==
    (pc = "parse_partner_row" /\ HasEmailLink(arg)) =>
        ret["Contact Email"] = validate_email(clean_text(LinkText(arg))).value

\* A row whose link text has the email shape only once clean has stripped a
\* character has been parsed, and the field is empty.
C6_Witness ==
    /\ pc = "parse_partner_row"
    /\ HasEmailLink(arg)
    /\ ~EmailShape(LowerTrimmed(LinkText(arg)))
    /\ EmailShape(LowerTrimmed(clean_text(LinkText(arg))))
    /\ ret["Contact Email"] = <<>>

\* a comes before b in lexicographic order: at the end of their longest common
\* prefix a has ended, or has the character of the smaller code point.
Before(a, b) ==
    /\ a # b
    /\ LET short == IF Len(a) <= Len(b) THEN Len(a) ELSE Len(b)
           m == Max({k \in 0..short : SubSeq(a, 1, k) = SubSeq(b, 1, k)})
       IN  IF m = Len(a) THEN TRUE
           ELSE IF m = Len(b) THEN FALSE
           ELSE CodePoint(a[m + 1]) < CodePoint(b[m + 1])

CleanedItems(row) ==
    {clean_text(Join(<<>>, row.spec_container[1][i])) : i \in DOMAIN row.spec_container[1]}
    \ {<<>>}

\* The sequences that list every element of S once.
Listings(S) ==
    {e \in [1..Cardinality(S) -> S] : \A x \in S : \E i \in DOMAIN e : e[i] = x}

NoScore(row) == SearchSortScore(get_text_strip(row.hidden_td[1])) = None

\* C9: whenever the hidden metadata cell is present but no numeric value
\* following a sortScore key can be parsed from it, parse_partner_row sets
\* SiemensBatch to "" and emits a warning diagnostic.
C9_MalformedScoreWarns ==
    (pc = "parse_partner_row" /\ arg.kind = "markup" /\ arg.hidden_td # None /\ NoScore(arg)) =>
        /\ ret["Siemens Batch"] = <<>>
        /\ \E i \in DOMAIN log :
               log[i] = Diag("WARNING", "Error parsing Siemens Batch")

(***************************************************************************)
(* Properties of the document loop, checked under Spec.                    *)
(***************************************************************************)
\* The content of the nearest enclosing row of a marker, as the extractor
\* receives it.
NearestRow(marker) ==
    LET trs == {i \in DOMAIN marker.ancestors : marker.ancestors[i].name = "tr"}
    IN  IF trs = {} THEN EmptyRow
        ELSE marker.ancestors[CHOOSE i \in trs : \A j \in trs : i <= j].row

\* C2: on a document with N row-marker cells parse_all_partners returns exactly
\* N records, the i-th being the extraction of the nearest enclosing row of the
\* i-th marker in document order; a failure while handling one row never drops,
\* duplicates or reorders a record; with zero markers the result is empty.
C2_OneRecordPerMarker ==
    (pc = "done" /\ arg.kind = "markup") =>
        /\ Len(ret) = Len(arg.markers)
        /\ \A i \in DOMAIN ret : ret[i] = parse_partner_row(NearestRow(arg.markers[i])).value

====
